---- MODULE Spec2Model ----
(***************************************************************************)
(* DryRunVisualised: the trace parser (traceParser.ts, schema.ts), the      *)
(* visualization classifier (vizDetector.ts), the execute route (route.ts) *)
(* and the trace store with the page and the slider that drive it          *)
(* (traceStore.ts, page.tsx, StepSlider.tsx) as state machines.            *)
(*   Spec       a traced run, then detectVizType on its trace              *)
(*   ShapeSpec  the same over grid-like, null and tied values              *)
(*   ParseSpec  lines printed to stdout, then parseTrace                   *)
(*   RouteSpec  POST: validation, the run of the wrapper, the answer       *)
(*   PageSpec   the store's actions and the page's handlers                *)
(*   StoreSpec  the store's actions called by any client, unguarded        *)
(*   AutoPlaySpec  the page, then playback left to the timer (fair ticks)  *)
(*                                                                         *)
(* A JSON value is a record tagged with its kind:                          *)
(*   number  [t, n, int]   n is the value when int, floor(value) otherwise *)
(*   string  [t, s]        boolean [t, b]        null [t]                  *)
(*   array   [t, items]    items a sequence of values                      *)
(*   object  [t, entries]  entries a sequence of [k, v] in stored order    *)
(* A step's stack is the sequence of its [k, v] entries in stored order    *)
(* (Object.entries order); variable names are Python identifiers, hence    *)
(* non-empty and never integer-like.                                       *)
(***************************************************************************)
EXTENDS Integers, Sequences, FiniteSets, TLC

VARIABLES
    trace,      \* the store's trace: what detectVizType is handed
    ctx,        \* the VizContext returned by the last detectVizType call
    phase,      \* position of the run, the parser, the route or the page
    lines,      \* the lines of stdout (stdout.split('\n'))
    pos,        \* parser: number of lines the for-loop has consumed
    steps,      \* parser: the steps array
    thrown,     \* TRUE when an exception escaped parseTrace or detectVizType
    stderr,     \* route: result.stderr of executeLocal
    response,   \* route: the NextResponse.json body and status
    currentStepIndex,   \* store
    isPlaying,          \* store
    playSpeed,          \* store
    code,               \* page: useState code
    selectedExample,    \* page: useState selectedExample
    isExecuting,        \* page: useState isExecuting
    requests            \* page: fetches of handleExecute not yet resolved

routeVars == <<stderr, response>>
storeVars == <<currentStepIndex, isPlaying, playSpeed>>
pageVars == <<code, selectedExample, isExecuting, requests>>
uiVars == <<routeVars, storeVars, pageVars>>
vars == <<trace, ctx, phase, lines, pos, steps, thrown, uiVars>>

(* ----------------------------- values --------------------------------- *)

Num(n) == [t |-> "number", n |-> n, int |-> TRUE]
\* the non-integer number n + 0.5
Frac(n) == [t |-> "number", n |-> n, int |-> FALSE]
Str(s) == [t |-> "string", s |-> s]
Bool(b) == [t |-> "boolean", b |-> b]
Null == [t |-> "null"]
Arr(items) == [t |-> "array", items |-> items]
Obj(entries) == [t |-> "object", entries |-> entries]
Entry(k, v) == [k |-> k, v |-> v]
\* what step.stack[name] yields for a name the stack does not hold
Undefined == [t |-> "undefined"]
\* primaryVar: string | null
NoVar == "<null>"

\* JavaScript's typeof
typeof(val) ==
    CASE val.t = "number" -> "number"
      [] val.t = "string" -> "string"
      [] val.t = "boolean" -> "boolean"
      [] val.t = "undefined" -> "undefined"
      [] OTHER -> "object"

\* Array.isArray
isArray(val) == val.t = "array"

\* obj[key] on a parsed JSON object
Get(entries, key) ==
    LET idx == {i \in 1..Len(entries) : entries[i].k = key}
    IN IF idx = {} THEN Undefined ELSE entries[CHOOSE i \in idx : TRUE].v

SeqMin(S) == CHOOSE i \in S : \A j \in S : i <= j

(* --------------------------- vizDetector ------------------------------ *)

AUX_NAMES ==
    {"stack", "queue", "visited", "path", "result", "seen",
     "temp", "output", "ans", "res", "memo", "cache", "dp",
     "parent", "prev", "next", "current", "node"}

\* mutant: the threshold compared with > instead of >=
isAdjacencyListStrict(val) ==
    IF typeof(val) # "object" \/ val.t = "null" \/ isArray(val) THEN FALSE
    ELSE LET entries == val.entries
             arrayCount == Cardinality({i \in 1..Len(entries) : isArray(entries[i].v)})
         IN IF Len(entries) < 2 THEN FALSE
            ELSE 10 * arrayCount > 6 * Len(entries)

\* mutant: the test entries.length < 2 left out
isAdjacencyListAnySize(val) ==
    IF typeof(val) # "object" \/ val.t = "null" \/ isArray(val) THEN FALSE
    ELSE LET entries == val.entries
             arrayCount == Cardinality({i \in 1..Len(entries) : isArray(entries[i].v)})
         IN 10 * arrayCount >= 6 * Len(entries)

\* arrayCount / entries.length >= 0.6, in integers
isAdjacencyList(val) ==
    IF typeof(val) # "object" \/ val.t = "null" \/ isArray(val) THEN FALSE
    ELSE LET entries == val.entries
             arrayCount == Cardinality({i \in 1..Len(entries) : isArray(entries[i].v)})
         IN IF Len(entries) < 2 THEN FALSE
            ELSE 10 * arrayCount >= 6 * Len(entries)

\* a cell the grid accepts: number, boolean, or string of length <= 2
isGridCell(cell) ==
    \/ typeof(cell) = "number"
    \/ typeof(cell) = "boolean"
    \/ (typeof(cell) = "string" /\ Len(cell.s) <= 2)

\* mutant: the one-type-per-row test left out
is2DGridMixedRows(val) ==
    IF ~isArray(val) \/ Len(val.items) < 2 THEN FALSE
    ELSE IF ~isArray(val.items[1]) THEN FALSE
    ELSE LET rows == val.items
             rowLen == Len(rows[1].items)
         IN IF rowLen < 2 THEN FALSE
            ELSE IF ~(\A r \in 1..Len(rows) :
                        isArray(rows[r]) /\ Len(rows[r].items) = rowLen) THEN FALSE
            ELSE \A r \in 1..Len(rows) :
                    \A c \in 1..Len(rows[r].items) : isGridCell(rows[r].items[c])

is2DGrid(val) ==
    IF ~isArray(val) \/ Len(val.items) < 2 THEN FALSE
    ELSE IF ~isArray(val.items[1]) THEN FALSE
    ELSE LET rows == val.items
             rowLen == Len(rows[1].items)
         IN IF rowLen < 2 THEN FALSE
            ELSE IF ~(\A r \in 1..Len(rows) :
                        isArray(rows[r]) /\ Len(rows[r].items) = rowLen) THEN FALSE
            ELSE \A r \in 1..Len(rows) :
                    LET row == rows[r].items
                        types == {typeof(row[c]) : c \in 1..Len(row)}
                    IN /\ ~(Cardinality(types) > 1)
                       /\ \A c \in 1..Len(row) : isGridCell(row[c])

is1DNumericArray(val) ==
    IF ~isArray(val) \/ Len(val.items) < 2 THEN FALSE
    ELSE \A i \in 1..Len(val.items) : typeof(val.items[i]) = "number"

is1DAnyArray(val) == isArray(val) /\ Len(val.items) >= 1

\* the predicate of stage 2b
isLinkedList(val) ==
    /\ val.t # "null" /\ typeof(val) = "object" /\ ~isArray(val)
    /\ Get(val.entries, "__type__") = Str("linked_list")

\* the [key, val] pairs in the order the nested loops over trace and
\* Object.entries(step.stack) visit them
RECURSIVE Flat(_)
Flat(tr) == IF tr = <<>> THEN <<>> ELSE Head(tr).stack \o Flat(Tail(tr))

\* allVarNames as the Set iterates: names in order of first insertion
RECURSIVE NamesOf(_, _)
NamesOf(es, acc) ==
    IF es = <<>> THEN acc
    ELSE LET key == Head(es).k
             seen == \E i \in 1..Len(acc) : acc[i] = key
         IN NamesOf(Tail(es), IF seen THEN acc ELSE Append(acc, key))

allVarNamesOf(tr) == NamesOf(Flat(tr), <<>>)

arrLenOf(val) == IF isArray(val) THEN Len(val.items) ELSE 0

\* varSamples: name -> {value, maxLen}, replaced only by a strictly longer array
RECURSIVE SamplesOf(_, _)
SamplesOf(es, acc) ==
    IF es = <<>> THEN acc
    ELSE LET key == Head(es).k
             val == Head(es).v
             len == arrLenOf(val)
             fresh == [value |-> val, maxLen |-> len]
         IN SamplesOf(Tail(es),
               IF key \notin DOMAIN acc
               THEN [n \in DOMAIN acc \cup {key} |-> IF n = key THEN fresh ELSE acc[n]]
               ELSE IF len > acc[key].maxLen THEN [acc EXCEPT ![key] = fresh]
               ELSE acc)

varSamplesOf(tr) == SamplesOf(Flat(tr), [n \in {} |-> Null])

\* name.startsWith("test"), over the names of the model
startsWithTest(name) == name \in {"test", "tests", "test_nums"}

\* mutant: the penalty of test variables left out
scoreWithoutTestPenalty(name, sample) ==
    sample.maxLen - (IF name \in AUX_NAMES THEN 100 ELSE 0)

score(name, sample) ==
    sample.maxLen
      - (IF name \in AUX_NAMES THEN 100 ELSE 0)
      - (IF startsWithTest(name) \/ name = "t" THEN 50 ELSE 0)

\* candidates.sort((a, b) => b.score - a.score)[0].name with a stable sort:
\* the first candidate, in Map iteration order, of maximal score
bestCandidate(names, varSamples, cands) ==
    IF cands = {} THEN NoVar
    ELSE LET best == {i \in cands : \A j \in cands :
                        score(names[i], varSamples[names[i]])
                          >= score(names[j], varSamples[names[j]])}
         IN names[SeqMin(best)]

findBestArray(names, varSamples) ==
    bestCandidate(names, varSamples,
        {i \in 1..Len(names) : is1DNumericArray(varSamples[names[i]].value)})

findBestAnyArray(names, varSamples) ==
    bestCandidate(names, varSamples,
        {i \in 1..Len(names) :
            /\ is1DAnyArray(varSamples[names[i]].value)
            /\ ~is2DGrid(varSamples[names[i]].value)})

\* predicate(val), the predicate passed by name
applyPredicate(predicate, val) ==
    CASE predicate = "isAdjacencyList" -> isAdjacencyList(val)
      [] predicate = "isLinkedList" -> isLinkedList(val)
      [] predicate = "is2DGrid" -> is2DGrid(val)

\* mutant: only the first entry of each step's stack is tested
findVariableByPredicateFirstEntry(tr, predicate) ==
    LET hits == {s \in 1..Len(tr) :
                    /\ Len(tr[s].stack) > 0
                    /\ applyPredicate(predicate, tr[s].stack[1].v)}
    IN IF hits = {} THEN NoVar ELSE tr[SeqMin(hits)].stack[1].k

findVariableByPredicate(tr, predicate) ==
    LET es == Flat(tr)
        hits == {i \in 1..Len(es) : applyPredicate(predicate, es[i].v)}
    IN IF hits = {} THEN NoVar ELSE es[SeqMin(hits)].k

\* mutant: Number.isInteger left out
isIndexAnyNumber(val, arrLen) ==
    typeof(val) = "number" /\ val.n >= 0 /\ val.n < arrLen

\* typeof val === "number" && Number.isInteger(val) && val >= 0 && val < arrLen
isIndex(val, arrLen) ==
    typeof(val) = "number" /\ val.int /\ val.n >= 0 /\ val.n < arrLen

\* seenAsInt / seenTotal >= 0.5, in integers
isPointerName(tr, name, arrLen) ==
    LET seenTotal == Cardinality({s \in 1..Len(tr) : Get(tr[s].stack, name) # Undefined})
        seenAsInt == Cardinality({s \in 1..Len(tr) :
                        isIndex(Get(tr[s].stack, name), arrLen)})
    IN seenTotal > 0 /\ 2 * seenAsInt >= seenTotal

findPointerVars(tr, allVarNames, arrLen) ==
    IF arrLen = 0 THEN <<>>
    ELSE SelectSeq(allVarNames,
            LAMBDA name : name \notin AUX_NAMES /\ isPointerName(tr, name, arrLen))

isScalarName(tr, name) ==
    \E s \in 1..Len(tr) :
        typeof(Get(tr[s].stack, name)) \in {"number", "string", "boolean"}

\* mutant: no cap
sliceAll(s) == s

\* scalars.slice(0, 5)
slice5(s) == SubSeq(s, 1, IF Len(s) < 5 THEN Len(s) ELSE 5)

\* mutant: result skipped like every other auxiliary name
findScalarVarsWithoutResult(tr, allVarNames, excludeVars) ==
    slice5(SelectSeq(allVarNames,
        LAMBDA name : /\ name \notin excludeVars
                      /\ name \notin AUX_NAMES
                      /\ isScalarName(tr, name)))

findScalarVars(tr, allVarNames, excludeVars) ==
    slice5(SelectSeq(allVarNames,
        LAMBDA name : /\ name \notin excludeVars
                      /\ ~(name \in AUX_NAMES /\ name # "result")
                      /\ isScalarName(tr, name)))

\* [...].filter(v => allVarNames.has(v)), and the push loops over a fixed list
present(list, allVarNames) ==
    SelectSeq(list, LAMBDA v : \E i \in 1..Len(allVarNames) : allVarNames[i] = v)

has(allVarNames, name) == \E i \in 1..Len(allVarNames) : allVarNames[i] = name

Context(type, primaryVar, auxVars, pointerVars, scalarVars) ==
    [type |-> type, primaryVar |-> primaryVar, auxVars |-> auxVars,
     pointerVars |-> pointerVars, scalarVars |-> scalarVars]

EmptyContext == Context("none", NoVar, <<>>, <<>>, <<>>)

searchAuxList ==
    <<"left", "right", "low", "high", "mid", "target", "water", "left_max",
      "right_max", "cut1", "cut2", "result", "current_sum">>
graphAuxList ==
    <<"visited", "queue", "stack", "current", "node", "path", "result", "distances">>
linkedAuxList ==
    <<"prev", "current", "next_node", "head", "reversed_head", "node", "temp">>
gridAuxList == <<"row", "col", "r", "c", "i", "j", "queens", "path", "visited">>

\* what a stage yields when it does not return
FallThrough == [type |-> "fallthrough"]

\* 1. Search detection
searchStage(tr, allVarNames, varSamples) ==
    LET hasLeftRight == has(allVarNames, "left") /\ has(allVarNames, "right")
        hasLowHigh == has(allVarNames, "low") /\ has(allVarNames, "high")
        arrayVar == findBestArray(allVarNames, varSamples)
    IN IF (hasLeftRight \/ hasLowHigh) /\ arrayVar # NoVar
       THEN Context("search", arrayVar, present(searchAuxList, allVarNames), <<>>,
                    findScalarVars(tr, allVarNames, {arrayVar}))
       ELSE FallThrough

\* mutant: the primary variable of a graph is taken to be called "graph"
graphStageNamedGraph(tr, allVarNames, varSamples) ==
    LET graphVar == findVariableByPredicate(tr, "isAdjacencyList")
    IN IF graphVar # NoVar
       THEN Context("graph", "graph", present(graphAuxList, allVarNames), <<>>, <<>>)
       ELSE FallThrough

\* 2. Graph detection
graphStage(tr, allVarNames, varSamples) ==
    LET graphVar == findVariableByPredicate(tr, "isAdjacencyList")
    IN IF graphVar # NoVar
       THEN Context("graph", graphVar, present(graphAuxList, allVarNames), <<>>, <<>>)
       ELSE FallThrough

\* 2b. Linked list detection
linkedListStage(tr, allVarNames, varSamples) ==
    LET linkedListVar == findVariableByPredicate(tr, "isLinkedList")
    IN IF linkedListVar # NoVar
       THEN Context("array", linkedListVar, present(linkedAuxList, allVarNames), <<>>,
                    findScalarVars(tr, allVarNames, {linkedListVar}))
       ELSE FallThrough

\* 3. Grid detection
gridStage(tr, allVarNames, varSamples) ==
    LET gridVar == findVariableByPredicate(tr, "is2DGrid")
    IN IF gridVar # NoVar
       THEN Context("grid", gridVar, present(gridAuxList, allVarNames), <<>>, <<>>)
       ELSE FallThrough

\* 4. Array detection
arrayStage(tr, allVarNames, varSamples) ==
    LET arrayVar == findBestArray(allVarNames, varSamples)
    IN IF arrayVar # NoVar
       THEN LET arrLen == varSamples[arrayVar].maxLen
                pointerVars == findPointerVars(tr, allVarNames, arrLen)
            IN Context("array", arrayVar, pointerVars, pointerVars,
                       findScalarVars(tr, allVarNames, {arrayVar}))
       ELSE FallThrough

\* mutant: the widened fallback left out
anyArrayStageAbsent(tr, allVarNames, varSamples) == FallThrough

\* mutant: pointers looked for as in the numeric-array stage
anyArrayStageWithPointers(tr, allVarNames, varSamples) ==
    LET anyArrayVar == findBestAnyArray(allVarNames, varSamples)
    IN IF anyArrayVar # NoVar
       THEN LET pointerVars ==
                    findPointerVars(tr, allVarNames, varSamples[anyArrayVar].maxLen)
            IN Context("array", anyArrayVar, pointerVars, pointerVars,
                       findScalarVars(tr, allVarNames, {anyArrayVar}))
       ELSE FallThrough

\* 5. Any array at all
anyArrayStage(tr, allVarNames, varSamples) ==
    LET anyArrayVar == findBestAnyArray(allVarNames, varSamples)
    IN IF anyArrayVar # NoVar
       THEN Context("array", anyArrayVar, <<>>, <<>>,
                    findScalarVars(tr, allVarNames, {anyArrayVar}))
       ELSE FallThrough

\* 6. dicts/objects worth showing, and the final return
noneStage(tr, allVarNames, varSamples) ==
    LET hasDicts == \E n \in DOMAIN varSamples :
                        /\ typeof(varSamples[n].value) = "object"
                        /\ varSamples[n].value.t # "null"
                        /\ ~isArray(varSamples[n].value)
    IN IF hasDicts
       THEN Context("none", NoVar, <<>>, <<>>, findScalarVars(tr, allVarNames, {}))
       ELSE EmptyContext

\* mutant: grid detection tried before graph detection
stagesGridFirst(tr, allVarNames, varSamples) ==
    <<searchStage(tr, allVarNames, varSamples),
      gridStage(tr, allVarNames, varSamples),
      graphStage(tr, allVarNames, varSamples),
      linkedListStage(tr, allVarNames, varSamples),
      arrayStage(tr, allVarNames, varSamples),
      anyArrayStage(tr, allVarNames, varSamples),
      noneStage(tr, allVarNames, varSamples)>>

\* mutant: linked-list detection tried before graph detection
stagesLinkedListFirst(tr, allVarNames, varSamples) ==
    <<searchStage(tr, allVarNames, varSamples),
      linkedListStage(tr, allVarNames, varSamples),
      graphStage(tr, allVarNames, varSamples),
      gridStage(tr, allVarNames, varSamples),
      arrayStage(tr, allVarNames, varSamples),
      anyArrayStage(tr, allVarNames, varSamples),
      noneStage(tr, allVarNames, varSamples)>>

\* the stages in the order the function body tries them
stagesOf(tr, allVarNames, varSamples) ==
    <<searchStage(tr, allVarNames, varSamples),
      graphStage(tr, allVarNames, varSamples),
      linkedListStage(tr, allVarNames, varSamples),
      gridStage(tr, allVarNames, varSamples),
      arrayStage(tr, allVarNames, varSamples),
      anyArrayStage(tr, allVarNames, varSamples),
      noneStage(tr, allVarNames, varSamples)>>

\* the first stage that returns decides
firstReturn(stages) ==
    stages[SeqMin({i \in 1..Len(stages) : stages[i] # FallThrough})]

detectVizType(tr) ==
    IF Len(tr) = 0 THEN EmptyContext
    ELSE firstReturn(stagesOf(tr, allVarNamesOf(tr), varSamplesOf(tr)))

(* --------------------- exceptions of vizDetector ---------------------- *)

\* reading a property of null or undefined throws a TypeError
nullish(val) == val.t \in {"null", "undefined"}

\* isAdjacencyList: Object.entries(val), behind the typeof / null / isArray test
isAdjacencyListThrows(val) ==
    ~(typeof(val) # "object" \/ val.t = "null" \/ isArray(val)) /\ nullish(val)

\* stage 2b's predicate: val.__type__, behind val !== null && typeof val === "object"
isLinkedListThrows(val) ==
    (val.t # "null" /\ typeof(val) = "object") /\ nullish(val)

is2DGridThrowsUnguarded(val) ==
    isArray(val) /\ Len(val.items) >= 2 /\ nullish(val.items[1])

\* is2DGrid: val[0].length behind Array.isArray(val[0]), row.length behind
\* Array.isArray(row), cell.length behind typeof cell === "string"
is2DGridThrows(val) ==
    /\ isArray(val) /\ Len(val.items) >= 2
    /\ \/ (isArray(val.items[1]) /\ nullish(val.items[1]))
       \/ \E r \in 1..Len(val.items) : isArray(val.items[r]) /\ nullish(val.items[r])
       \/ /\ is2DGrid(val)
          /\ \E r \in 1..Len(val.items) : \E c \in 1..Len(val.items[r].items) :
                typeof(val.items[r].items[c]) = "string" /\ nullish(val.items[r].items[c])

\* some predicate detectVizType can apply to a value of the trace throws
detectVizTypeThrows(tr) ==
    \E i \in 1..Len(Flat(tr)) :
        \/ isAdjacencyListThrows(Flat(tr)[i].v)
        \/ isLinkedListThrows(Flat(tr)[i].v)
        \/ is2DGridThrows(Flat(tr)[i].v)

(* ------------------ initial store, page and route -------------------- *)

\* the examples of the page, each with the code it loads into the editor
EXAMPLES ==
    [binary_search |-> [code |-> "def search(nums, target): ..."],
     bfs |-> [code |-> "def bfs(graph, start): ..."]]

DEFAULT_EXAMPLE == "binary_search"

\* create<TraceState>: the initial fields beside trace
InitialStore ==
    /\ currentStepIndex = 0
    /\ isPlaying = FALSE
    /\ playSpeed = 500

\* the useState initial values of Home; no fetch is pending
InitialPage ==
    /\ code = EXAMPLES[DEFAULT_EXAMPLE].code
    /\ selectedExample = DEFAULT_EXAMPLE
    /\ isExecuting = FALSE
    /\ requests = {}

NoResponse == [status |-> 0]

\* no run has been made and the route has not answered
NoRun ==
    /\ stderr = ""
    /\ response = NoResponse

(* ------------------------- the traced program ------------------------- *)

NUM2 == Arr(<<Num(1), Num(2)>>)
NUM3 == Arr(<<Num(1), Num(2), Num(3)>>)
STR3 == Arr(<<Str("a"), Str("b"), Str("c")>>)
EMPTY == Arr(<<>>)
GRID == Arr(<<Arr(<<Num(0), Num(1)>>), Arr(<<Num(1), Num(0)>>)>>)
\* five entries, three of them lists: exactly 60%
ADJ60 == Obj(<<Entry("a", Arr(<<Str("b")>>)), Entry("b", Arr(<<>>)),
               Entry("c", Arr(<<Str("a")>>)), Entry("n", Num(3)), Entry("w", Null)>>)
\* two entries, one of them a list: 50%
HALF == Obj(<<Entry("a", Arr(<<Num(1)>>)), Entry("b", Num(1))>>)
\* a single entry, a list: 100%, but fewer than 2 entries
SOLO == Obj(<<Entry("a", Arr(<<Num(1)>>))>>)
\* what __serialize_linked_list__ emits
LL == Obj(<<Entry("__type__", Str("linked_list")), Entry("values", NUM2)>>)

\* the values a variable of the traced program takes
Dom(name) ==
    CASE name = "nums" -> {NUM2, STR3, EMPTY, GRID, ADJ60, HALF, SOLO, Num(0)}
      [] name = "graph" -> {ADJ60, LL}
      [] name = "visited" -> {NUM3}
      [] name = "i" -> {Num(0), Num(2), Num(-1), Frac(0)}
      [] name = "result" -> {Num(1)}
      [] OTHER -> {Num(0)}

AssignedNames == {"nums", "graph", "visited", "i", "result"}

Bind(names) == [j \in 1..Len(names) |-> Entry(names[j], Num(9))]

\* the locals of the frame at its first line event: the arguments of the call
ArgStacks ==
    {<<>>,
     <<Entry("left", Num(0)), Entry("right", Num(1))>>,
     <<Entry("low", Num(0)), Entry("high", Num(1))>>,
     <<Entry("left", Num(0)), Entry("high", Num(1))>>,
     Bind(<<"a", "b", "c", "d", "e", "f">>)}

\* assignments traced after the first line event
MaxSteps == 3

\* f_locals after name = value: a new name is appended, a bound one keeps its place
Assigned(stack, name, value) ==
    IF \E j \in 1..Len(stack) : stack[j].k = name
    THEN [j \in 1..Len(stack) |->
            IF stack[j].k = name THEN Entry(name, value) ELSE stack[j]]
    ELSE Append(stack, Entry(name, value))

\* a TraceStep as the tracer prints it: "heap": {}, and nothing printed so far
Step(line, stack) ==
    [line |-> Num(line), stack |-> stack, heap |-> <<>>, stdout |-> Str("")]

NoContext == [type |-> "pending"]

Init ==
    /\ trace = <<>>
    /\ ctx = NoContext
    /\ phase = "tracing"
    /\ lines = <<>>
    /\ pos = 0
    /\ steps = <<>>
    /\ thrown = FALSE
    /\ NoRun /\ InitialStore /\ InitialPage

\* __trace_func__ on the first line event of the run
TraceFirstLine(args) ==
    /\ phase = "tracing"
    /\ trace = <<>>
    /\ trace' = <<Step(1, args)>>
    /\ UNCHANGED <<uiVars, ctx, phase, lines, pos, steps, thrown>>

\* __trace_func__ on the line event after name = value ran
TraceLine(name, value) ==
    /\ phase = "tracing"
    /\ trace # <<>>
    /\ Len(trace) <= MaxSteps
    /\ trace' = Append(trace,
                  Step(Len(trace) + 1, Assigned(trace[Len(trace)].stack, name, value)))
    /\ UNCHANGED <<uiVars, ctx, phase, lines, pos, steps, thrown>>

\* the page's useMemo(() => detectVizType(trace), [trace])
Classify ==
    /\ phase = "tracing"
    /\ thrown' = detectVizTypeThrows(trace)
    /\ ctx' = IF thrown' THEN ctx ELSE detectVizType(trace)
    /\ phase' = "classified"
    /\ UNCHANGED <<uiVars, trace, lines, pos, steps>>

Next ==
    \/ \E args \in ArgStacks : TraceFirstLine(args)
    \/ \E name \in AssignedNames : \E value \in Dom(name) : TraceLine(name, value)
    \/ Classify

Spec == Init /\ [][Next]_vars

(* ------------------- properties of the classifier --------------------- *)

\* the names some step's stack holds
NameSet(tr) ==
    UNION {{tr[s].stack[j].k : j \in 1..Len(tr[s].stack)} : s \in 1..Len(tr)}

DefinedAt(tr, s, name) == \E j \in 1..Len(tr[s].stack) : tr[s].stack[j].k = name
ValueAt(tr, s, name) ==
    tr[s].stack[CHOOSE j \in 1..Len(tr[s].stack) : tr[s].stack[j].k = name].v
StepsDefining(tr, name) == {s \in 1..Len(tr) : DefinedAt(tr, s, name)}

\* some variable holds, at some step, a value satisfying P
Held(tr, P(_)) ==
    \E s \in 1..Len(tr) : \E j \in 1..Len(tr[s].stack) : P(tr[s].stack[j].v)

\* the first variable holding such a value, steps in order, entries in stored order
FirstHolder(tr, P(_)) ==
    LET holds(s) == \E j \in 1..Len(tr[s].stack) : P(tr[s].stack[j].v)
        s0 == CHOOSE s \in 1..Len(tr) : holds(s) /\ \A u \in 1..(s - 1) : ~holds(u)
        j0 == CHOOSE j \in 1..Len(tr[s0].stack) :
                /\ P(tr[s0].stack[j].v)
                /\ \A i \in 1..(j - 1) : ~P(tr[s0].stack[i].v)
    IN tr[s0].stack[j0].k

SeqLength(val) == IF val.t = "array" THEN Len(val.items) ELSE 0

\* the largest-observed value of a variable: its value at the first step where its
\* sequence length is the largest it ever has
LargestObserved(tr, name) ==
    LET S == StepsDefining(tr, name)
        top == {s \in S : \A u \in S :
                  SeqLength(ValueAt(tr, s, name)) >= SeqLength(ValueAt(tr, u, name))}
    IN ValueAt(tr, CHOOSE s \in top : \A u \in top : s <= u, name)

NumericSequence(val) ==
    /\ val.t = "array" /\ Len(val.items) >= 2
    /\ \A i \in 1..Len(val.items) : val.items[i].t = "number"

AdjacencyMapping(val) ==
    /\ val.t = "object" /\ Len(val.entries) >= 2
    /\ 5 * Cardinality({i \in 1..Len(val.entries) : val.entries[i].v.t = "array"})
          >= 3 * Len(val.entries)

LinkedListTagged(val) ==
    /\ val.t = "object"
    /\ \E i \in 1..Len(val.entries) :
          val.entries[i].k = "__type__" /\ val.entries[i].v = Str("linked_list")

SimpleCell(val) ==
    val.t \in {"number", "boolean"} \/ (val.t = "string" /\ Len(val.s) <= 2)

GridShaped(val) ==
    /\ val.t = "array" /\ Len(val.items) >= 2
    /\ \A r \in 1..Len(val.items) : val.items[r].t = "array"
    /\ Len(val.items[1].items) >= 2
    /\ \A r \in 1..Len(val.items) :
          /\ Len(val.items[r].items) = Len(val.items[1].items)
          /\ \A c \in 1..Len(val.items[r].items) :
                /\ SimpleCell(val.items[r].items[c])
                /\ val.items[r].items[c].t = val.items[r].items[1].t

NonEmptySequence(val) == val.t = "array" /\ Len(val.items) >= 1

Classified == phase = "classified"

HasPair(tr) ==
    \/ {"left", "right"} \subseteq NameSet(tr)
    \/ {"low", "high"} \subseteq NameSet(tr)

\* a numeric array qualifies: some variable's largest-observed value is one
NumericArrayQualifies(tr) ==
    \E name \in NameSet(tr) : NumericSequence(LargestObserved(tr, name))

AnyArrayQualifies(tr) ==
    \E name \in NameSet(tr) :
        /\ NonEmptySequence(LargestObserved(tr, name))
        /\ ~GridShaped(LargestObserved(tr, name))

SearchMatches(tr) == HasPair(tr) /\ NumericArrayQualifies(tr)

\* C1: whenever the names left and right both occur and some variable holds a
\* numeric sequence of length >= 2 at some step, the type is search, whatever
\* that variable holds at other steps.
C1_SearchWheneverNumericHeld ==
    (Classified /\ {"left", "right"} \subseteq NameSet(trace)
        /\ Held(trace, NumericSequence))
      => ctx.type = "search"

\* C2: when some value is a non-array mapping with >= 2 entries of which >= 60%
\* are sequences and the search stage does not match, the type is graph.
C2_GraphWhenAdjacency ==
    (Classified /\ Held(trace, AdjacencyMapping) /\ ~SearchMatches(trace))
      => ctx.type = "graph"

\* an adjacency list decided the result although a left/right or low/high pair
\* is present (no numeric array qualifies)
C2_Witness ==
    /\ Classified /\ Held(trace, AdjacencyMapping) /\ ~SearchMatches(trace)
    /\ HasPair(trace) /\ Held(trace, NonEmptySequence)
    /\ ctx.type = "graph"

\* C3 as stated: stage order search, graph, grid, array, none; the first stage
\* whose condition holds decides.
C3_StagesInStatedOrder ==
    Classified =>
      IF SearchMatches(trace) THEN ctx.type = "search"
      ELSE IF Held(trace, AdjacencyMapping) THEN ctx.type = "graph"
      ELSE IF Held(trace, GridShaped) THEN ctx.type = "grid"
      ELSE TRUE

\* C3 amended: the linked-list sub-case is a stage of its own between graph and
\* grid: search, graph, linked list (type array), grid, array, none.
C3_StagesInCodeOrder ==
    Classified =>
      IF SearchMatches(trace) THEN ctx.type = "search"
      ELSE IF Held(trace, AdjacencyMapping) THEN ctx.type = "graph"
      ELSE IF Held(trace, LinkedListTagged)
           THEN ctx.type = "array" /\ ctx.primaryVar = FirstHolder(trace, LinkedListTagged)
      ELSE IF Held(trace, GridShaped) THEN ctx.type = "grid"
      ELSE TRUE

\* a grid decided the result although a numeric array qualifies as well
C3_Witness ==
    /\ Classified /\ ~SearchMatches(trace) /\ ~Held(trace, AdjacencyMapping)
    /\ ~Held(trace, LinkedListTagged) /\ Held(trace, GridShaped)
    /\ NumericArrayQualifies(trace)
    /\ ctx.type = "grid"

BothLinkedListAndAdjacency(tr) ==
    /\ Held(tr, LinkedListTagged) /\ Held(tr, AdjacencyMapping)
    /\ FirstHolder(tr, LinkedListTagged) # FirstHolder(tr, AdjacencyMapping)

\* C4 as stated: the linked-list sub-case is checked before adjacency-list
\* detection, so with both present (and no search match) the result is type
\* array with the linked-list variable as primaryVar.
C4_LinkedListBeforeGraph ==
    (Classified /\ ~SearchMatches(trace) /\ BothLinkedListAndAdjacency(trace))
      => (ctx.type = "array" /\ ctx.primaryVar = FirstHolder(trace, LinkedListTagged))

\* C4 amended: adjacency-list detection is checked before the linked-list
\* sub-case, so with both present (and no search match) the result is type graph
\* with the first adjacency-list variable as primaryVar; the linked-list variable
\* decides only when no adjacency list is present.
C4_GraphBeforeLinkedList ==
    (Classified /\ ~SearchMatches(trace) /\ Held(trace, LinkedListTagged))
      => IF Held(trace, AdjacencyMapping)
         THEN ctx.type = "graph" /\ ctx.primaryVar = FirstHolder(trace, AdjacencyMapping)
         ELSE ctx.type = "array" /\ ctx.primaryVar = FirstHolder(trace, LinkedListTagged)

\* two variables, the linked list seen before the adjacency list, result graph
C4_Witness ==
    /\ Classified /\ ~SearchMatches(trace) /\ BothLinkedListAndAdjacency(trace)
    /\ \E s \in 1..Len(trace) :
          /\ Held(SubSeq(trace, 1, s), LinkedListTagged)
          /\ ~Held(SubSeq(trace, 1, s), AdjacencyMapping)
    /\ ctx.type = "graph"

InRangeInteger(val, L) == val.t = "number" /\ val.int /\ 0 <= val.n /\ val.n < L

LargestLength(tr, name) ==
    LET lens == {SeqLength(ValueAt(tr, s, name)) : s \in StepsDefining(tr, name)}
    IN CHOOSE n \in lens : \A m \in lens : n >= m

\* C5: every name in pointerVars is, in at least half of the steps where it is
\* defined, an integer in [0, L), L the largest observed length of primaryVar.
C5_PointersInRangeHalfTheTime ==
    Classified =>
      \A p \in 1..Len(ctx.pointerVars) :
        LET name == ctx.pointerVars[p]
            L == LargestLength(trace, ctx.primaryVar)
            S == StepsDefining(trace, name)
            inRange == {s \in S : InRangeInteger(ValueAt(trace, s, name), L)}
        IN S # {} /\ 2 * Cardinality(inRange) >= Cardinality(S)

\* a pointer that is in range in exactly half of its steps, beside a variable
\* that holds a number in every step and is no pointer
C5_Witness ==
    /\ Classified /\ ctx.type = "array"
    /\ \E p \in 1..Len(ctx.pointerVars) :
          LET name == ctx.pointerVars[p]
              L == LargestLength(trace, ctx.primaryVar)
              S == StepsDefining(trace, name)
          IN 2 * Cardinality({s \in S : InRangeInteger(ValueAt(trace, s, name), L)})
                = Cardinality(S)
    /\ \E name \in NameSet(trace) :
          /\ \A p \in 1..Len(ctx.pointerVars) : ctx.pointerVars[p] # name
          /\ \A s \in StepsDefining(trace, name) : ValueAt(trace, s, name).t = "number"

\* C6: scalarVars has at most 5 elements and does not contain primaryVar.
C6_ScalarsCappedWithoutPrimary ==
    Classified =>
      /\ Len(ctx.scalarVars) <= 5
      /\ \A i \in 1..Len(ctx.scalarVars) : ctx.scalarVars[i] # ctx.primaryVar

ScalarHeld(tr, name) ==
    \E s \in StepsDefining(tr, name) :
        ValueAt(tr, s, name).t \in {"number", "string", "boolean"}

\* six or more variables hold scalars, the primary variable among them, and
\* scalarVars is cut to 5
C6_Witness ==
    /\ Classified /\ ctx.primaryVar # NoVar
    /\ ScalarHeld(trace, ctx.primaryVar)
    /\ Cardinality({name \in NameSet(trace) \ {ctx.primaryVar} : ScalarHeld(trace, name)}) >= 6
    /\ Len(ctx.scalarVars) = 5

\* some detection stage matches
SomeStageMatches(tr) ==
    \/ SearchMatches(tr)
    \/ Held(tr, AdjacencyMapping)
    \/ Held(tr, LinkedListTagged)
    \/ Held(tr, GridShaped)
    \/ NumericArrayQualifies(tr)
    \/ AnyArrayQualifies(tr)

Line(head, ok, value) == [head |-> head, ok |-> ok, value |-> value]

\* line.startsWith("__TRACE__")
startsWithTrace(line) == line.head = "__TRACE__"

isObject(val) == val.t = "object"

\* HeapObjectSchema: z.object({type: z.enum([...]), value: z.any()})
HeapObjectSchema(val) ==
    /\ isObject(val)
    /\ Get(val.entries, "type") \in
          {Str("array"), Str("object"), Str("list_node"), Str("tree_node"), Str("other")}

\* TraceStepSchema.safeParse(rawStep).success
TraceStepSchema(raw) ==
    /\ isObject(raw)
    /\ typeof(Get(raw.entries, "line")) = "number"
    /\ isObject(Get(raw.entries, "stack"))
    /\ isObject(Get(raw.entries, "heap"))
    /\ \A i \in 1..Len(Get(raw.entries, "heap").entries) :
          HeapObjectSchema(Get(raw.entries, "heap").entries[i].v)
    /\ typeof(Get(raw.entries, "stdout")) = "string"

\* parsed.data: the four keys of the schema, unknown keys stripped
parsedData(raw) ==
    [line |-> Get(raw.entries, "line"),
     stack |-> Get(raw.entries, "stack").entries,
     heap |-> Get(raw.entries, "heap").entries,
     stdout |-> Get(raw.entries, "stdout")]

\* the body of the for-loop on one line: what is pushed, and whether an
\* exception escapes the loop (JSON.parse throws inside the try; the catch logs)
parseLine(line) ==
    IF ~startsWithTrace(line) THEN [push |-> <<>>, escaped |-> FALSE]
    ELSE IF ~line.ok THEN [push |-> <<>>, escaped |-> FALSE]
    ELSE IF TraceStepSchema(line.value)
         THEN [push |-> <<parsedData(line.value)>>, escaped |-> FALSE]
         ELSE [push |-> <<>>, escaped |-> FALSE]

RawStep(line, stack, heap, stdout) ==
    Obj(<<Entry("line", line), Entry("stack", stack),
          Entry("heap", heap), Entry("stdout", stdout)>>)

GoodRaw(n) == RawStep(Num(n), Obj(<<Entry("i", Num(n))>>), Obj(<<>>), Str(""))

\* the lines a run can print
StdoutLines ==
    {Line("__TRACE__", TRUE, GoodRaw(1)),
     Line("__TRACE__", TRUE, GoodRaw(2)),
     \* a well-formed record with a heap object and a key the schema does not know
     Line("__TRACE__", TRUE,
          Obj(<<Entry("line", Num(3)), Entry("stack", Obj(<<>>)),
                Entry("heap", Obj(<<Entry("0x1", Obj(<<Entry("type", Str("array")),
                                                       Entry("value", NUM2)>>))>>)),
                Entry("stdout", Str("hi")), Entry("extra", Null)>>)),
     \* line 0, negative, non-integer
     Line("__TRACE__", TRUE, GoodRaw(0)),
     Line("__TRACE__", TRUE, GoodRaw(-1)),
     Line("__TRACE__", TRUE, RawStep(Frac(1), Obj(<<>>), Obj(<<>>), Str(""))),
     \* schema-invalid: line a string, stack missing, stack an array, bad heap
     \* object, stdout null, not an object at all
     Line("__TRACE__", TRUE, RawStep(Str("1"), Obj(<<>>), Obj(<<>>), Str(""))),
     Line("__TRACE__", TRUE,
          Obj(<<Entry("line", Num(1)), Entry("heap", Obj(<<>>)), Entry("stdout", Str(""))>>)),
     Line("__TRACE__", TRUE, RawStep(Num(1), Arr(<<>>), Obj(<<>>), Str(""))),
     Line("__TRACE__", TRUE,
          RawStep(Num(1), Obj(<<>>),
                  Obj(<<Entry("0x1", Obj(<<Entry("type", Str("set"))>>))>>), Str(""))),
     Line("__TRACE__", TRUE, RawStep(Num(1), Obj(<<>>), Obj(<<>>), Null)),
     Line("__TRACE__", TRUE, Num(5)),
     \* the sentinel followed by text that is not JSON (a truncated record)
     Line("__TRACE__", FALSE, Null),
     \* other lines: program output, the fatal-error line, an empty line, a
     \* record whose sentinel is not at the start of the line
     Line("", FALSE, Null),
     Line("__ERROR__", FALSE, Null),
     Line("", TRUE, GoodRaw(1)),
     Line("out: __TRACE__", TRUE, GoodRaw(2))}

MaxLines == 3

ParseInit ==
    /\ trace = <<>>
    /\ ctx = NoContext
    /\ phase = "printing"
    /\ lines = <<>>
    /\ pos = 0
    /\ steps = <<>>
    /\ thrown = FALSE
    /\ NoRun /\ InitialStore /\ InitialPage

\* the run prints one more line
PrintLine(line) ==
    /\ phase = "printing"
    /\ Len(lines) < MaxLines
    /\ lines' = Append(lines, line)
    /\ UNCHANGED <<uiVars, trace, ctx, phase, pos, steps, thrown>>

\* parseTrace is entered: steps = [], lines = stdout.split('\n')
ParseStart ==
    /\ phase = "printing"
    /\ phase' = "parsing"
    /\ pos' = 0
    /\ steps' = <<>>
    /\ UNCHANGED <<uiVars, trace, ctx, lines, thrown>>

\* one iteration of the for-loop
ParseLine ==
    /\ phase = "parsing"
    /\ pos < Len(lines)
    /\ LET r == parseLine(lines[pos + 1])
       IN /\ steps' = steps \o r.push
          /\ thrown' = r.escaped
          /\ pos' = pos + 1
          /\ phase' = IF r.escaped THEN "parsed" ELSE "parsing"
    /\ UNCHANGED <<uiVars, trace, ctx, lines>>

\* return steps
ParseReturn ==
    /\ phase = "parsing"
    /\ pos = Len(lines)
    /\ phase' = "parsed"
    /\ UNCHANGED <<uiVars, trace, ctx, lines, pos, steps, thrown>>

ParseNext ==
    \/ \E line \in StdoutLines : PrintLine(line)
    \/ ParseStart
    \/ ParseLine
    \/ ParseReturn

ParseSpec == ParseInit /\ [][ParseNext]_vars

(* --------------------- properties of the parser ----------------------- *)

PositiveInteger(val) == val.t = "number" /\ val.int /\ val.n >= 1

Field(raw, key) ==
    IF \E i \in 1..Len(raw.entries) : raw.entries[i].k = key
    THEN raw.entries[CHOOSE i \in 1..Len(raw.entries) : raw.entries[i].k = key].v
    ELSE [t |-> "absent"]

TaggedHeapObject(val) ==
    /\ val.t = "object"
    /\ Field(val, "type").t = "string"
    /\ Field(val, "type").s \in {"array", "object", "list_node", "tree_node", "other"}

\* the TraceStep shape of the data model: line a positive integer, stack a
\* mapping, heap a mapping of tagged heap objects, stdout a string
TraceStepShape(raw) ==
    /\ raw.t = "object"
    /\ PositiveInteger(Field(raw, "line"))
    /\ Field(raw, "stack").t = "object"
    /\ Field(raw, "heap").t = "object"
    /\ \A i \in 1..Len(Field(raw, "heap").entries) :
          TaggedHeapObject(Field(raw, "heap").entries[i].v)
    /\ Field(raw, "stdout").t = "string"

\* a well-formed record: the sentinel at the start of the line, then JSON text
\* of a TraceStep; every other line is malformed or unrelated
WellFormedRecord(line) ==
    line.head = "__TRACE__" /\ line.ok /\ TraceStepShape(line.value)

\* what the schema of the code accepts: as TraceStepShape, with any number as line
SchemaAccepts(line) ==
    /\ line.head = "__TRACE__" /\ line.ok /\ line.value.t = "object"
    /\ Field(line.value, "line").t = "number"
    /\ TraceStepShape([line.value EXCEPT !.entries =
          <<Entry("line", Num(1))>> \o
            SelectSeq(line.value.entries, LAMBDA en : en.k # "line")])

\* the records the schema accepts are returned in their original relative
\* order, every other line is dropped, and nothing is thrown
ParserKeepsAcceptedInOrder ==
    phase = "parsed" =>
      LET acc == SelectSeq(lines, SchemaAccepts)
      IN /\ ~thrown
         /\ Len(steps) = Len(acc)
         /\ \A i \in 1..Len(steps) :
               /\ steps[i].line = Field(acc[i].value, "line")
               /\ steps[i].stack = Field(acc[i].value, "stack").entries
               /\ steps[i].stdout = Field(acc[i].value, "stdout")

\* C9: parseTrace returns exactly the well-formed records, in their original
\* relative order, drops every other line and never throws.
C9_ExactlyTheWellFormedRecords ==
    phase = "parsed" =>
      LET wf == SelectSeq(lines, WellFormedRecord)
      IN /\ ~thrown
         /\ Len(steps) = Len(wf)
         /\ \A i \in 1..Len(steps) :
               /\ steps[i].line = Field(wf[i].value, "line")
               /\ steps[i].stack = Field(wf[i].value, "stack").entries
               /\ steps[i].stdout = Field(wf[i].value, "stdout")

\* C10: every step parseTrace returns has a line that is an integer >= 1.
C10_LinePositiveInteger ==
    \A i \in 1..Len(steps) : PositiveInteger(steps[i].line)

(* ------------------------ the execute route --------------------------- *)

\* parseTrace(stdout) as a function of the lines: the steps pushed, in order
RECURSIVE parseTrace(_)
parseTrace(ls) ==
    IF ls = <<>> THEN <<>> ELSE parseLine(Head(ls)).push \o parseTrace(Tail(ls))

\* the fatal-error line of the wrapper: "__ERROR__" + str(e); the message is
\* the program's, so it can hold any text, the sentinel included
ErrorHeads == {"__ERROR__", "__ERROR__name '__TRACE__' is not defined"}

\* the line heads that hold the text "__TRACE__" somewhere
SentinelHeads ==
    {"__TRACE__", "out: __TRACE__", "__ERROR__name '__TRACE__' is not defined"}

\* result.stdout.includes("__TRACE__")
includesTrace(out) == \E i \in 1..Len(out) : out[i].head \in SentinelHeads

runFailedOnAnyStderr(out, err) == err # ""

\* the condition of the early 500: result.stderr && !result.stdout.includes(...)
runFailed(out, err) == err # "" /\ ~includesTrace(out)

\* the answer of POST once executeLocal has resolved
respond(out, err) ==
    IF runFailed(out, err)
    THEN [status |-> 500, error |-> err]
    ELSE [status |-> 200, trace |-> parseTrace(out), rawStdout |-> out, stderr |-> err]

\* a request body that is not JSON of an object: req.json() throws
BadBody == [malformed |-> TRUE]

Bodies ==
    {[code |-> c, language |-> l] :
        c \in {"", "print(1)"}, l \in {"", "python", "python3", "javascript"}}
    \cup {BadBody}

\* a record the tracer prints whose JSON text does not parse (json.dumps
\* writes NaN for float('nan'))
NaNRecord == Line("__TRACE__", FALSE, Null)

RouteInit ==
    /\ trace = <<>>
    /\ ctx = NoContext
    /\ phase = "request"
    /\ lines = <<>>
    /\ pos = 0
    /\ steps = <<>>
    /\ thrown = FALSE
    /\ NoRun /\ InitialStore /\ InitialPage

\* POST up to the await of executeLocal: the early returns and the catch
POST(body) ==
    /\ phase = "request"
    /\ IF body = BadBody
       THEN /\ response' = [status |-> 500, error |-> "Unexpected token"]
            /\ phase' = "responded"
       ELSE IF body.code = "" \/ body.language = ""
       THEN /\ response' = [status |-> 400, error |-> "Code and language are required"]
            /\ phase' = "responded"
       ELSE IF body.language \notin {"python", "python3"}
       THEN /\ response' = [status |-> 400, error |-> "Language not yet supported"]
            /\ phase' = "responded"
       ELSE /\ phase' = "running"
            /\ UNCHANGED response
    /\ UNCHANGED <<trace, ctx, lines, pos, steps, thrown, stderr, storeVars, pageVars>>

\* __trace_func__ prints the record of one line event (f_lineno >= 1)
TracePrint(line) ==
    /\ phase = "running"
    /\ Len(lines) < MaxLines
    /\ lines' = Append(lines, line)
    /\ UNCHANGED <<uiVars, trace, ctx, phase, pos, steps, thrown>>

\* the program (or the interpreter, for what `except Exception` lets through)
\* writes to stderr, which the wrapper does not redirect
WriteStderr ==
    /\ phase = "running"
    /\ stderr = ""
    /\ stderr' = "Traceback (most recent call last): ..."
    /\ UNCHANGED <<trace, ctx, phase, lines, pos, steps, thrown, response, storeVars, pageVars>>

\* except Exception as e: print("__ERROR__" + str(e)); compile() raising a
\* SyntaxError comes here before any line event
WrapperExcept(head) ==
    /\ phase = "running"
    /\ lines' = Append(lines, Line(head, FALSE, Null))
    /\ phase' = "exited"
    /\ UNCHANGED <<uiVars, trace, ctx, pos, steps, thrown>>

\* the process ends without the wrapper's except clause having run
ProcessExit ==
    /\ phase = "running"
    /\ phase' = "exited"
    /\ UNCHANGED <<uiVars, trace, ctx, lines, pos, steps, thrown>>

\* POST after the await: the stderr test, parseTrace, the JSON answer
POSTAfterExecute ==
    /\ phase = "exited"
    /\ response' = respond(lines, stderr)
    /\ phase' = "responded"
    /\ UNCHANGED <<trace, ctx, lines, pos, steps, thrown, stderr, storeVars, pageVars>>

RouteNext ==
    \/ \E body \in Bodies : POST(body)
    \/ \E line \in {Line("__TRACE__", TRUE, GoodRaw(1)),
                    Line("__TRACE__", TRUE, GoodRaw(2)), NaNRecord} : TracePrint(line)
    \/ WriteStderr
    \/ \E head \in ErrorHeads : WrapperExcept(head)
    \/ ProcessExit
    \/ POSTAfterExecute

RouteSpec == RouteInit /\ [][RouteNext]_vars

(* ---------------------- properties of the route ----------------------- *)

HasErrorLine(ls) == \E i \in 1..Len(ls) : ls[i].head \in ErrorHeads

HasTraceLine(ls) == \E i \in 1..Len(ls) : ls[i].head = "__TRACE__"

\* st is the steps of the records recs, in order
StepsOfRecords(st, recs) ==
    /\ Len(st) = Len(recs)
    /\ \A i \in 1..Len(st) :
          /\ st[i].line = Field(recs[i].value, "line")
          /\ st[i].stack = Field(recs[i].value, "stack").entries
          /\ st[i].stdout = Field(recs[i].value, "stdout")

IsErrorResult(r) == "error" \in DOMAIN r /\ "trace" \notin DOMAIN r

IsTraceResult(r) == "trace" \in DOMAIN r /\ "error" \notin DOMAIN r

\* C11: when stdout holds a fatal-error line and no __TRACE__ line at all, the
\* endpoint answers with an error result and not with a trace.
C11_ErrorWithoutTraceIsFailure ==
    (phase = "responded" /\ HasErrorLine(lines) /\ ~HasTraceLine(lines))
        => IsErrorResult(response)

\* C12: when the run printed at least one valid __TRACE__ line and then failed
\* (fatal-error line present and/or stderr non-empty), the endpoint answers with
\* a trace holding exactly the steps printed before the failure, in order, and
\* not with an error result.
C12_PartialTraceReturned ==
    (/\ phase = "responded"
     /\ \E i \in 1..Len(lines) : WellFormedRecord(lines[i])
     /\ (HasErrorLine(lines) \/ stderr # ""))
        => /\ IsTraceResult(response)
           /\ StepsOfRecords(response.trace, SelectSeq(lines, WellFormedRecord))

C12_Witness ==
    /\ phase = "responded"
    /\ HasErrorLine(lines)
    /\ stderr # ""
    /\ Len(SelectSeq(lines, WellFormedRecord)) >= 2
    /\ \E i \in 1..Len(lines) : lines[i] = NaNRecord
    /\ IsTraceResult(response)
    /\ Len(response.trace) = 2

(* ------------------------ the store and the page ---------------------- *)

Min(a, b) == IF a < b THEN a ELSE b
Max(a, b) == IF a > b THEN a ELSE b

\* useMemo(() => detectVizType(trace), [trace]) on the render after a change
Render == ctx' = IF trace' = trace THEN ctx ELSE detectVizType(trace')

\* what neither the store nor the page owns
NotOfPage == UNCHANGED <<phase, lines, pos, steps, thrown, routeVars>>

\* mutant: the position of the playback kept
setTraceKeepingIndex(tr) ==
    /\ trace' = tr
    /\ isPlaying' = FALSE
    /\ UNCHANGED <<currentStepIndex, playSpeed>>

\* setTrace: set({trace, currentStepIndex: 0, isPlaying: false})
setTrace(tr) ==
    /\ trace' = tr
    /\ currentStepIndex' = 0
    /\ isPlaying' = FALSE
    /\ UNCHANGED playSpeed

nextStep ==
    /\ currentStepIndex' = Min(currentStepIndex + 1, Len(trace) - 1)
    /\ UNCHANGED <<trace, isPlaying, playSpeed, pageVars>>
    /\ Render /\ NotOfPage

prevStep ==
    /\ currentStepIndex' = Max(currentStepIndex - 1, 0)
    /\ UNCHANGED <<trace, isPlaying, playSpeed, pageVars>>
    /\ Render /\ NotOfPage

setStep(index) ==
    /\ currentStepIndex' = Max(0, Min(index, Len(trace) - 1))
    /\ UNCHANGED <<trace, isPlaying, playSpeed, pageVars>>
    /\ Render /\ NotOfPage

togglePlay ==
    /\ isPlaying' = ~isPlaying
    /\ UNCHANGED <<trace, currentStepIndex, playSpeed, pageVars>>
    /\ Render /\ NotOfPage

setPlaySpeed(speed) ==
    /\ playSpeed' = speed
    /\ UNCHANGED <<trace, currentStepIndex, isPlaying, pageVars>>
    /\ Render /\ NotOfPage

resetClearingTrace ==
    /\ trace' = <<>>
    /\ currentStepIndex' = 0
    /\ isPlaying' = FALSE
    /\ UNCHANGED <<playSpeed, pageVars>>
    /\ Render /\ NotOfPage

\* reset: set({currentStepIndex: 0, isPlaying: false})
reset ==
    /\ currentStepIndex' = 0
    /\ isPlaying' = FALSE
    /\ UNCHANGED <<trace, playSpeed, pageVars>>
    /\ Render /\ NotOfPage

\* JSON.stringify of a parsed JSON value (the strings of the traces hold no
\* character that is escaped)
RECURSIVE stringify(_)
stringify(val) ==
    LET joined(n, item(_)) ==
            LET RECURSIVE upTo(_)
                upTo(i) == IF i = 0 THEN ""
                           ELSE IF i = 1 THEN item(1)
                           ELSE upTo(i - 1) \o "," \o item(i)
            IN upTo(n)
    IN CASE val.t = "number" ->
              IF val.int THEN ToString(val.n)
              ELSE IF val.n >= 0 THEN ToString(val.n) \o ".5"
              ELSE IF val.n = -1 THEN "-0.5"
              ELSE ToString(val.n + 1) \o ".5"
         [] val.t = "string" -> "\"" \o val.s \o "\""
         [] val.t = "boolean" -> IF val.b THEN "true" ELSE "false"
         [] val.t = "null" -> "null"
         [] val.t = "array" ->
              "[" \o joined(Len(val.items), LAMBDA i : stringify(val.items[i])) \o "]"
         [] val.t = "object" ->
              "{" \o joined(Len(val.entries),
                            LAMBDA i : "\"" \o val.entries[i].k \o "\":"
                                         \o stringify(val.entries[i].v)) \o "}"

\* va !== vb: primitives and null by value, arrays and objects by reference,
\* and two steps never share a reference (each line is parsed on its own)
strictlyUnequal(va, vb) ==
    IF va.t \in {"array", "object"} \/ vb.t \in {"array", "object"}
    THEN TRUE
    ELSE va # vb

\* mutant: only the number of keys compared
hasVisualChangeByKeyCount(a, b) == Len(a) # Len(b)

\* hasVisualChange(a, b): step b shows something step a does not
hasVisualChange(a, b) ==
    IF Len(a) # Len(b) THEN TRUE
    ELSE \E j \in 1..Len(b) :
            LET va == Get(a, b[j].k)
                vb == b[j].v
            IN \/ va = Undefined
               \/ /\ strictlyUnequal(va, vb)
                  /\ IF typeof(va) = "object" \/ typeof(vb) = "object"
                     THEN stringify(va) # stringify(vb)
                     ELSE TRUE

\* the while loop of smartStep: next after the loop, indices from 0
RECURSIVE skipFrom(_, _, _)
skipFrom(t, idx, next) ==
    IF /\ next < Len(t) - 1
       /\ next - idx < 5
       /\ ~hasVisualChange(t[idx + 1].stack, t[next + 1].stack)
    THEN skipFrom(t, idx, next + 1)
    ELSE next

\* mutant: the last step does not stop the playback
smartStepWithoutStop ==
    /\ isPlaying /\ Len(trace) > 0
    /\ IF currentStepIndex >= Len(trace) - 1
       THEN setStep(currentStepIndex)
       ELSE IF playSpeed <= 100
            THEN setStep(skipFrom(trace, currentStepIndex, currentStepIndex + 1))
            ELSE nextStep

\* a tick of the auto-play timer: the interval runs while isPlaying and the
\* trace is not empty, and calls smartStep
smartStep ==
    /\ isPlaying /\ Len(trace) > 0
    /\ IF currentStepIndex >= Len(trace) - 1
       THEN togglePlay
       ELSE IF playSpeed <= 100
            THEN setStep(skipFrom(trace, currentStepIndex, currentStepIndex + 1))
            ELSE nextStep

\* the speeds of the slider's buttons
SPEED_OPTIONS == {500, 250, 100, 50, 20}

\* what the user can leave in the editor: the empty text, a program of their own
\* a program of the user that idles: x = [3, 1, 2], y = None, pass on 7 lines,
\* x = [3, 1], pass on 2 lines
IdlingProgram == "x = [3, 1, 2]; y = None; pass (7 lines); x = [3, 1]; pass (2 lines)"

EditedCode == {"", "x = [3, 1, 2]", IdlingProgram}

\* the locals before each of the 12 lines of IdlingProgram runs
IdlingRun ==
    [s \in 1..12 |->
        Step(s, IF s = 1 THEN <<>>
                ELSE IF s = 2 THEN <<Entry("x", NUM3)>>
                ELSE IF s <= 10 THEN <<Entry("x", NUM3), Entry("y", Null)>>
                ELSE <<Entry("x", Arr(<<Num(3), Num(1)>>)), Entry("y", Null)>>)]

\* the trace the tracer records for a program
RunOf(c) ==
    IF c = EXAMPLES["binary_search"].code
    THEN <<Step(1, <<Entry("nums", NUM3), Entry("target", Num(2))>>),
           Step(2, <<Entry("nums", NUM3), Entry("target", Num(2)),
                     Entry("left", Num(0)), Entry("right", Num(2))>>),
           Step(3, <<Entry("nums", NUM3), Entry("target", Num(2)),
                     Entry("left", Num(0)), Entry("right", Num(2)),
                     Entry("mid", Num(1))>>)>>
    ELSE IF c = EXAMPLES["bfs"].code
    THEN <<Step(1, <<Entry("graph", ADJ60)>>),
           Step(2, <<Entry("graph", ADJ60), Entry("visited", EMPTY)>>)>>
    ELSE IF c = IdlingProgram
    THEN IdlingRun
    ELSE <<Step(1, <<>>), Step(2, <<Entry("x", NUM3)>>)>>

\* the JSON bodies /api/execute can answer a request for the code c with
AnswersFor(c) ==
    IF c = ""
    THEN {[error |-> "Code and language are required"]}
    ELSE {[error |-> "Traceback (most recent call last): ..."],
          [trace |-> <<>>],
          [trace |-> RunOf(c)]}

PageInit ==
    /\ trace = <<>>
    /\ ctx = EmptyContext
    /\ phase = "page"
    /\ lines = <<>>
    /\ pos = 0
    /\ steps = <<>>
    /\ thrown = FALSE
    /\ NoRun /\ InitialStore /\ InitialPage

\* handleExecute up to the await of fetch; the Run button is disabled while
\* isExecuting
handleExecute ==
    /\ ~isExecuting
    /\ isExecuting' = TRUE
    /\ setTrace(<<>>)
    /\ requests' = requests \cup {[code |-> code, selectedExample |-> selectedExample]}
    /\ UNCHANGED <<code, selectedExample>>
    /\ Render /\ NotOfPage

\* handleExecute after the awaits: the answer data of the request r has arrived
handleExecuteAnswered(r, data) ==
    /\ r \in requests
    /\ requests' = requests \ {r}
    /\ IF "error" \in DOMAIN data
       THEN UNCHANGED storeVars /\ UNCHANGED trace
       ELSE setTrace(data.trace)
    /\ isExecuting' = FALSE
    /\ UNCHANGED <<code, selectedExample>>
    /\ Render /\ NotOfPage

\* handleExecute when fetch rejects: the catch and the finally
handleExecuteFailed(r) ==
    /\ r \in requests
    /\ requests' = requests \ {r}
    /\ isExecuting' = FALSE
    /\ UNCHANGED <<trace, storeVars, code, selectedExample>>
    /\ Render /\ NotOfPage

\* handleExampleChange: setSelectedExample, setCode, reset(), setTrace([])
handleExampleChange(key) ==
    /\ selectedExample' = key
    /\ code' = EXAMPLES[key].code
    /\ setTrace(<<>>)
    /\ UNCHANGED <<isExecuting, requests>>
    /\ Render /\ NotOfPage

\* the editor's onChange: (val) => setCode(val || "")
CodeEditorOnChange(val) ==
    /\ code' = val
    /\ UNCHANGED <<trace, storeVars, selectedExample, isExecuting, requests>>
    /\ Render /\ NotOfPage

\* the playback controls are disabled, and the slider absent, while the trace
\* is empty
PageNext ==
    \/ handleExecute
    \/ \E r \in requests : \E data \in AnswersFor(r.code) : handleExecuteAnswered(r, data)
    \/ \E r \in requests : handleExecuteFailed(r)
    \/ \E key \in DOMAIN EXAMPLES : handleExampleChange(key)
    \/ \E val \in EditedCode : CodeEditorOnChange(val)
    \/ (Len(trace) > 0 /\ nextStep)
    \/ (Len(trace) > 0 /\ prevStep)
    \/ (Len(trace) > 0 /\ \E index \in 0..(Len(trace) - 1) : setStep(index))
    \/ (Len(trace) > 0 /\ togglePlay)
    \/ (Len(trace) > 0 /\ \E speed \in SPEED_OPTIONS : setPlaySpeed(speed))
    \/ (Len(trace) > 0 /\ reset)
    \/ smartStep

PageSpec == PageInit /\ [][PageNext]_vars

(* ------------------- the store called by any client ------------------- *)

\* the traces a client hands to setTrace
StoreTraces ==
    {<<>>, RunOf(EXAMPLES["binary_search"].code), RunOf(EXAMPLES["bfs"].code), IdlingRun}

\* setStep takes a number: indices below, inside and above the trace
StoreIndices == (0 - 2)..(Len(trace) + 1)

\* useTraceStore.getState().setTrace(tr)
storeSetTrace(tr) ==
    /\ setTrace(tr)
    /\ UNCHANGED pageVars
    /\ Render /\ NotOfPage

\* the actions of the store, no control of the page in front of them
StoreNext ==
    \/ \E tr \in StoreTraces : storeSetTrace(tr)
    \/ nextStep
    \/ prevStep
    \/ \E index \in StoreIndices : setStep(index)
    \/ togglePlay
    \/ \E speed \in SPEED_OPTIONS : setPlaySpeed(speed)
    \/ reset

StoreSpec == PageInit /\ [][StoreNext]_vars

(* ---------------------- playback left to the timer -------------------- *)

\* the user lets go of the page: from here on no handler of the page or of
\* the controls runs, only the timer
LetGo ==
    /\ phase = "page"
    /\ requests = {}
    /\ phase' = "unattended"
    /\ UNCHANGED <<trace, ctx, lines, pos, steps, thrown, uiVars>>

AutoPlayNext ==
    \/ (phase = "page" /\ PageNext)
    \/ LetGo
    \/ smartStep

\* setInterval(smartStep, playSpeed) keeps firing while the interval exists
AutoPlaySpec == PageInit /\ [][AutoPlayNext]_vars /\ WF_vars(smartStep)

(* ----------------- properties of the store and the page --------------- *)

CodeEdited == \E val \in EditedCode : CodeEditorOnChange(val)

ExampleSwitched == \E key \in DOMAIN EXAMPLES : handleExampleChange(key)

\* C13: the stored trace is discarded whenever the user edits the code and
\* whenever the user switches examples: right after either event the store's
\* trace is empty.
C13_TraceDiscardedOnEditOrSwitch ==
    [][(CodeEdited \/ ExampleSwitched) => trace' = <<>>]_vars

\* the answer data arrives for a request r issued under an example the user has
\* left since
StaleAnswerArrives ==
    \E r \in requests : \E data \in AnswersFor(r.code) :
        /\ r.selectedExample # selectedExample
        /\ handleExecuteAnswered(r, data)

\* C14: a result of a superseded execution is never installed: when the user
\* switched examples while a request was in flight, the arrival of that
\* request's answer leaves the store's trace as the switch left it.
C14_StaleResultNeverInstalled ==
    [][StaleAnswerArrives => trace' = trace]_vars

Playback ==
    \/ nextStep
    \/ prevStep
    \/ \E index \in 0..(Len(trace) - 1) : setStep(index)
    \/ togglePlay
    \/ \E speed \in SPEED_OPTIONS : setPlaySpeed(speed)
    \/ reset

\* C15: nextStep, prevStep, setStep, togglePlay, setPlaySpeed and reset leave
\* the trace unchanged, so the context derived from the trace is the same at
\* every playback position: it stays what detectVizType gives for the trace.
C15_PlaybackKeepsClassification ==
    [][Playback => (trace' = trace /\ ctx' = ctx /\ ctx' = detectVizType(trace'))]_vars

C15_Witness ==
    /\ Len(trace) = 3
    /\ currentStepIndex = 2
    /\ isPlaying
    /\ playSpeed = 100
    /\ ctx.type = "search"
    /\ ctx = detectVizType(trace)

(* ------------------- traces of assorted shapes ------------------------ *)

BOOLGRID == Arr(<<Arr(<<Bool(TRUE), Bool(FALSE)>>), Arr(<<Bool(FALSE), Bool(TRUE)>>)>>)
QUEENS == Arr(<<Arr(<<Str("Q"), Str(".")>>), Arr(<<Str(".."), Str("Q")>>)>>)
WORDS == Arr(<<Arr(<<Str("abc"), Str("d")>>), Arr(<<Str("e"), Str("f")>>)>>)
ROWTYPES == Arr(<<Arr(<<Num(1), Num(2)>>), Arr(<<Str("a"), Str("b")>>)>>)
TUPLES == Arr(<<Arr(<<Num(10), Bool(TRUE)>>), Arr(<<Num(9), Bool(FALSE)>>)>>)
RAGGED == Arr(<<Arr(<<Num(1), Num(2)>>), Arr(<<Num(3)>>)>>)
ONECOL == Arr(<<Arr(<<Num(1)>>), Arr(<<Num(2)>>)>>)
ONEROW == Arr(<<Arr(<<Num(1), Num(2)>>)>>)
HEADNUM == Arr(<<Num(1), Arr(<<Num(1), Num(2)>>)>>)
TAILNUM == Arr(<<Arr(<<Num(1), Num(2)>>), Num(3)>>)
NULLCELLS == Arr(<<Arr(<<Null, Null>>), Arr(<<Null, Null>>)>>)
NULLROW == Arr(<<Null, Arr(<<Num(1), Num(2)>>)>>)
CUBE == Arr(<<Arr(<<Arr(<<Num(1)>>), Arr(<<Num(2)>>)>>),
              Arr(<<Arr(<<Num(3)>>), Arr(<<Num(4)>>)>>)>>)

\* the values a traced program assigns, by variable
ShapeDom(name) ==
    CASE name = "board" ->
            {GRID, BOOLGRID, QUEENS, WORDS, ROWTYPES, TUPLES, RAGGED, ONECOL,
             ONEROW, HEADNUM, TAILNUM, NULLCELLS, NULLROW, CUBE, EMPTY}
      [] name = "nums" -> {NUM2, GRID, LL, Null}
      [] OTHER -> {Num(0)}

ShapeNames == {"board", "nums", "i"}

\* the arguments of the traced function: none, a pair of bounds, two arrays,
\* two adjacency lists, arrays under names the scoring penalises
ShapeArgStacks ==
    {<<>>,
     <<Entry("left", Num(0)), Entry("right", Num(1))>>,
     <<Entry("nums1", NUM2), Entry("nums2", NUM2)>>,
     <<Entry("graph", ADJ60), Entry("edges", ADJ60)>>,
     <<Entry("t", NUM3), Entry("nums1", NUM2)>>,
     <<Entry("visited", NUM3), Entry("test_nums", NUM2)>>,
     <<Entry("visited", STR3), Entry("items", ONEROW)>>}

\* assignments traced after the first line event
MaxShapeSteps == 2

ShapeNext ==
    \/ \E args \in ShapeArgStacks : TraceFirstLine(args)
    \/ \E name \in ShapeNames : \E value \in ShapeDom(name) :
          Len(trace) <= MaxShapeSteps /\ TraceLine(name, value)
    \/ Classify

ShapeSpec == Init /\ [][ShapeNext]_vars

(* --------------- further properties of the classifier ----------------- *)

\* the stack with its entries at positions j and j + 1 exchanged
Exchanged(stack, j) ==
    [i \in 1..Len(stack) |->
        IF i = j THEN stack[j + 1] ELSE IF i = j + 1 THEN stack[j] ELSE stack[i]]

Reversed(stack) == [i \in 1..Len(stack) |-> stack[Len(stack) + 1 - i]]

\* traces that differ from tr by a permutation of the entries of steps' stacks:
\* two neighbours exchanged in one step, one step reversed, every step reversed
Permuted(tr) ==
    UNION {{[tr EXCEPT ![s].stack = Exchanged(tr[s].stack, j)] :
                j \in 1..(Len(tr[s].stack) - 1)} : s \in 1..Len(tr)}
    \cup {[tr EXCEPT ![s].stack = Reversed(tr[s].stack)] : s \in 1..Len(tr)}
    \cup {[s \in 1..Len(tr) |-> [tr[s] EXCEPT !.stack = Reversed(tr[s].stack)]]}

\* C16 as stated: permuting the entries of a step's stack (same names, same
\* values) yields the same VisualizationContext.
C16_ContextOrderIndependent ==
    Classified => \A tr \in Permuted(trace) : detectVizType(tr) = ctx

\* C16 as amended: permuting the entries of steps' stacks yields a context of
\* the same type.
C16_TypeOrderIndependent ==
    Classified => \A tr \in Permuted(trace) : detectVizType(tr).type = ctx.type

\* two variables tie for the primary array, and their order decides primaryVar
C16_Witness ==
    /\ Classified /\ ctx.type = "array"
    /\ \E s \in 1..Len(trace) : Len(trace[s].stack) >= 3
    /\ \E tr \in Permuted(trace) :
          /\ detectVizType(tr).primaryVar # ctx.primaryVar
          /\ detectVizType(tr).type = ctx.type

\* a mapping that is neither a sequence nor null
Mapping(val) == val.t = "object"

\* the shared scalar rule with nothing excluded: the names in the order of their
\* first observation that are not auxiliary (result excepted) and hold a
\* number, string or boolean at some step, cut to 5
SharedScalarRule(tr) ==
    LET eligible(name) ==
            (name \notin AUX_NAMES \/ name = "result") /\ ScalarHeld(tr, name)
        all == SelectSeq(allVarNamesOf(tr), eligible)
    IN SubSeq(all, 1, Min(5, Len(all)))

\* C17: when no detection stage matches but some variable holds, at some step,
\* a non-array, non-null mapping, the type is none and scalarVars is the shared
\* scalar rule over all variables with nothing excluded, also when the variable
\* held a primitive value at the first step where it appeared.
C17_MappingAnywhereGivesScalars ==
    (Classified /\ ~SomeStageMatches(trace) /\ Held(trace, Mapping))
        => /\ ctx.type = "none"
           /\ ctx.scalarVars = SharedScalarRule(trace)

\* C18: when primaryVar is not null it is a key of the stack of some step.
C18_PrimaryVarOccurs ==
    (Classified /\ ctx.primaryVar # NoVar) => ctx.primaryVar \in NameSet(trace)

\* a graph whose adjacency list is not the variable called graph
C18_Witness ==
    /\ Classified /\ ctx.type = "graph"
    /\ ctx.primaryVar = "nums"
    /\ "graph" \notin NameSet(trace)

\* C19: for the empty trace detectVizType returns, without throwing, type none,
\* primaryVar null and empty auxVars, pointerVars and scalarVars; and for no
\* trace does it throw: it returns a context of one of the five types.
C19_EmptyIsNoneAndNeverThrows ==
    Classified =>
      /\ ~thrown
      /\ ctx.type \in {"search", "graph", "grid", "array", "none"}
      /\ trace = <<>> =>
            /\ ctx.type = "none" /\ ctx.primaryVar = NoVar
            /\ ctx.auxVars = <<>> /\ ctx.pointerVars = <<>> /\ ctx.scalarVars = <<>>

C19_Witness ==
    /\ Classified /\ ~thrown
    /\ trace = <<>>
    /\ ctx.type = "none" /\ ctx.primaryVar = NoVar

\* a trace with null where the predicates read properties is classified as well
C19_NullsClassified ==
    /\ Classified /\ ~thrown
    /\ Held(trace, LAMBDA val : val = NULLROW)
    /\ Held(trace, LAMBDA val : val = Null)
    /\ ctx.type = "array"

\* C20: a value triggers the grid stage exactly when it is a sequence of
\* length >= 2 of sequences of one common length >= 2 whose cells are numbers,
\* booleans or strings of length <= 2, of one type within each row; when the
\* grid stage decides, primaryVar is the first variable holding such a value
\* (steps in order, entries in stored order) and pointerVars and scalarVars are
\* empty.
C20_GridPredicateAndResult ==
    Classified =>
      /\ \A s \in 1..Len(trace) : \A j \in 1..Len(trace[s].stack) :
            is2DGrid(trace[s].stack[j].v) <=> GridShaped(trace[s].stack[j].v)
      /\ (/\ ~SearchMatches(trace)
          /\ ~Held(trace, AdjacencyMapping)
          /\ ~Held(trace, LinkedListTagged))
            => ((ctx.type = "grid") <=> Held(trace, GridShaped))
      /\ ctx.type = "grid" =>
            /\ Held(trace, GridShaped)
            /\ ctx.primaryVar = FirstHolder(trace, GridShaped)
            /\ ctx.pointerVars = <<>>
            /\ ctx.scalarVars = <<>>

\* two variables hold grids and the first one is primaryVar
C20_Witness ==
    /\ Classified /\ ctx.type = "grid"
    /\ Held(trace, LAMBDA val : val = BOOLGRID)
    /\ Held(trace, LAMBDA val : val = GRID)
    /\ ctx.primaryVar = "board"
    /\ ctx.auxVars = <<>>

\* the members of a fixed list that occur among the names of the trace
Occurring(list, tr) == SelectSeq(list, LAMBDA name : name \in NameSet(tr))

\* C21: whenever the type is graph, primaryVar is the first variable (steps in
\* order, entries in stored order) holding a mapping of at least 2 entries of
\* which at least 60% are sequences, so a mapping with fewer entries or fewer
\* sequences never makes the result graph; and auxVars is the members of
\* visited, queue, stack, current, node, path, result, distances that occur.
C21_GraphPrimaryAndAux ==
    (Classified /\ ctx.type = "graph") =>
      /\ Held(trace, AdjacencyMapping)
      /\ ctx.primaryVar = FirstHolder(trace, AdjacencyMapping)
      /\ ctx.auxVars =
            Occurring(<<"visited", "queue", "stack", "current", "node", "path",
                        "result", "distances">>, trace)

\* a one-entry mapping is passed over, the adjacency list assigned later is primary
C21_Witness ==
    /\ Classified /\ ctx.type = "graph"
    /\ ctx.primaryVar = "graph"
    /\ Held(trace, LAMBDA val : val = SOLO)
    /\ ctx.auxVars = <<"result">>

\* the auxiliary-name set
AuxiliaryNames ==
    {"stack", "queue", "visited", "path", "result", "seen", "temp", "output",
     "ans", "res", "memo", "cache", "dp", "parent", "prev", "next", "current",
     "node"}

\* the name is t or starts with test
TestNamed(name) == name \in {"t", "test", "tests", "test_nums"}

\* largest observed length, minus 100 for an auxiliary name, minus 50 for a
\* test name
Score(tr, name) ==
    SeqLength(LargestObserved(tr, name))
      - (IF name \in AuxiliaryNames THEN 100 ELSE 0)
      - (IF TestNamed(name) THEN 50 ELSE 0)

FirstStepDefining(tr, name) ==
    CHOOSE s \in StepsDefining(tr, name) : \A u \in StepsDefining(tr, name) : s <= u

PlaceAt(tr, s, name) == CHOOSE j \in 1..Len(tr[s].stack) : tr[s].stack[j].k = name

\* a is observed before b: at an earlier step, or earlier in the stack of the
\* step where both are first observed
ObservedBefore(tr, a, b) ==
    LET sa == FirstStepDefining(tr, a)
        sb == FirstStepDefining(tr, b)
    IN sa < sb \/ (sa = sb /\ PlaceAt(tr, sa, a) < PlaceAt(tr, sb, b))

\* the candidates whose largest-observed value satisfies C
Candidates(tr, C(_)) == {name \in NameSet(tr) : C(LargestObserved(tr, name))}

\* name has the maximum score among the candidates and is the first observed
\* of those that have it
IsChosen(tr, C(_), name) ==
    /\ name \in Candidates(tr, C)
    /\ \A other \in Candidates(tr, C) :
          /\ Score(tr, name) >= Score(tr, other)
          /\ (Score(tr, other) = Score(tr, name) /\ other # name)
                => ObservedBefore(tr, name, other)

\* the result comes from the best numeric array: the search stage, or the
\* array stage (type array with a numeric array qualifying and no linked list)
NumericArrayDecides ==
    /\ Classified
    /\ \/ ctx.type = "search"
       \/ /\ ctx.type = "array"
          /\ ~Held(trace, LinkedListTagged)
          /\ NumericArrayQualifies(trace)

\* C22: among the variables whose largest-observed value is a sequence of
\* length >= 2 of numbers, primaryVar has the maximum score (length, minus 100
\* for an auxiliary name, minus 50 for t or a name starting with test), and
\* among several of maximum score it is the first observed.
C22_BestNumericArrayChosen ==
    NumericArrayDecides => IsChosen(trace, NumericSequence, ctx.primaryVar)

\* the longer array t loses to nums1, and nums of the same score comes later
C22_Witness ==
    /\ NumericArrayDecides
    /\ ctx.primaryVar = "nums1"
    /\ {"t", "nums"} \subseteq Candidates(trace, NumericSequence)
    /\ Score(trace, "nums") = Score(trace, "nums1")
    /\ Score(trace, "t") < 0

\* the result comes from the numeric-array stage
ArrayStageDecides ==
    /\ Classified /\ ctx.type = "array"
    /\ ~Held(trace, LinkedListTagged)
    /\ NumericArrayQualifies(trace)

ListedIn(list, name) == \E p \in 1..Len(list) : list[p] = name

\* in at least half of the steps where it is defined, name is an integer in [0, L)
InRangeHalfTheTime(tr, name, L) ==
    LET S == StepsDefining(tr, name)
    IN /\ S # {}
       /\ 2 * Cardinality({s \in S : InRangeInteger(ValueAt(tr, s, name), L)})
              >= Cardinality(S)

\* C23: in the numeric-array stage every variable other than primaryVar whose
\* name is not auxiliary, or is result, and which is an integer in [0, length
\* of the primary array) in at least half of the steps where it is defined is
\* in pointerVars, and auxVars equals pointerVars.
C23_PointersComplete ==
    ArrayStageDecides =>
      /\ \A name \in NameSet(trace) \ {ctx.primaryVar} :
            ( /\ (name \notin AuxiliaryNames \/ name = "result")
              /\ InRangeHalfTheTime(trace, name, LargestLength(trace, ctx.primaryVar)) )
                => ListedIn(ctx.pointerVars, name)
      /\ ctx.auxVars = ctx.pointerVars

\* C24: pointerVars never contains primaryVar, also when the primary variable
\* holds an in-range integer in at least half of the steps where it is defined
\* and an array in the others.
C24_PrimaryIsNoPointer ==
    Classified => ~ListedIn(ctx.pointerVars, ctx.primaryVar)

\* the variables the shared scalar rule admits
ScalarEligible(tr, excluded) ==
    {name \in NameSet(tr) \ excluded :
        /\ (name \notin AuxiliaryNames \/ name = "result")
        /\ ScalarHeld(tr, name)}

\* list is the first (at most) 5 of the admitted variables in the order of
\* their first observation
IsFirstFiveScalars(tr, excluded, list) ==
    LET E == ScalarEligible(tr, excluded)
        L == {list[p] : p \in 1..Len(list)}
    IN /\ L \subseteq E
       /\ Len(list) = Min(5, Cardinality(E))
       /\ \A p, q \in 1..Len(list) : p < q => ObservedBefore(tr, list[p], list[q])
       /\ \A name \in E \ L : \A p \in 1..Len(list) : ObservedBefore(tr, list[p], name)

SequenceNotGrid(val) == val.t = "array" /\ ~GridShaped(val)

\* a sequence of length >= 1 that is not grid-shaped
NonEmptySequenceNotGrid(val) == NonEmptySequence(val) /\ ~GridShaped(val)

\* the stages search, graph, linked list and grid do not match and no numeric
\* array qualifies
OnlyFallbackLeft ==
    /\ Classified
    /\ ~SearchMatches(trace)
    /\ ~Held(trace, AdjacencyMapping)
    /\ ~Held(trace, LinkedListTagged)
    /\ ~Held(trace, GridShaped)
    /\ ~NumericArrayQualifies(trace)

\* type array, primaryVar by the scoring among the candidates C, no pointers
FallbackResult(C(_)) ==
    /\ ctx.type = "array"
    /\ IsChosen(trace, C, ctx.primaryVar)
    /\ ~GridShaped(LargestObserved(trace, ctx.primaryVar))
    /\ ctx.pointerVars = <<>>
    /\ ctx.auxVars = <<>>

\* C26 as stated: when only the fallback is left and some variable's
\* largest-observed value is a sequence that is not grid-shaped, the type is
\* array, primaryVar is chosen by the scoring of the numeric case, and
\* pointerVars = auxVars = [].
C26_AnySequenceFallsBack ==
    (OnlyFallbackLeft /\ Candidates(trace, SequenceNotGrid) # {})
        => FallbackResult(SequenceNotGrid)

\* C26: when only the fallback is left and some variable's largest-observed
\* value is a sequence of length >= 1 that is not grid-shaped, the type is
\* array, primaryVar is chosen among those variables by the scoring of the
\* numeric case, pointerVars = auxVars = [], and no grid-shaped value is chosen.
C26_NonEmptySequenceFallsBack ==
    (OnlyFallbackLeft /\ Candidates(trace, NonEmptySequenceNotGrid) # {})
        => FallbackResult(NonEmptySequenceNotGrid)

\* items wins over the longer visited, ties with board, and i is an index of it
C26_Witness ==
    /\ OnlyFallbackLeft
    /\ ctx.primaryVar = "items"
    /\ {"visited", "board", "items"} \subseteq Candidates(trace, NonEmptySequenceNotGrid)
    /\ Score(trace, "board") = Score(trace, "items")
    /\ SeqLength(LargestObserved(trace, "visited")) > SeqLength(LargestObserved(trace, "items"))
    /\ InRangeHalfTheTime(trace, "i", 1)

(* ------------------------ properties of auto-play --------------------- *)

\* the stack b shows what the stack a shows: the same keys, and under each key
\* JSON-equal values
NoVisualChange(a, b) ==
    /\ {a[j].k : j \in 1..Len(a)} = {b[j].k : j \in 1..Len(b)}
    /\ \A i \in 1..Len(a) : \A j \in 1..Len(b) : a[i].k = b[j].k => a[i].v = b[j].v

\* the stack of the step at index k, indices from 0
StackAt(k) == trace[k + 1].stack

LastIndex == Len(trace) - 1

\* C27: a timer tick at index idx < last index with playSpeed <= 100 moves
\* currentStepIndex to some next with idx + 1 <= next <= min(idx + 5, last
\* index), and every step strictly between idx and next has a stack with no
\* visual change relative to the stack of step idx; with playSpeed > 100 a tick
\* moves the index by exactly 1; a tick never moves the index past the last step.
C27_TickSkipsOnlyUnchangedSteps ==
    [][smartStep =>
        /\ currentStepIndex' <= LastIndex
        /\ (currentStepIndex < LastIndex /\ playSpeed <= 100) =>
              /\ currentStepIndex + 1 <= currentStepIndex'
              /\ currentStepIndex' <= Min(currentStepIndex + 5, LastIndex)
              /\ \A k \in (currentStepIndex + 1)..(currentStepIndex' - 1) :
                    NoVisualChange(StackAt(currentStepIndex), StackAt(k))
        /\ (currentStepIndex < LastIndex /\ playSpeed > 100) =>
              currentStepIndex' = currentStepIndex + 1]_vars

\* playback at a speed that skips stands 5 steps after a step whose stack the
\* 4 steps in between repeat, short of the last step
C27_Witness ==
    /\ isPlaying /\ playSpeed <= 100
    /\ currentStepIndex >= 5 /\ currentStepIndex < LastIndex
    /\ \A k \in (currentStepIndex - 4)..(currentStepIndex - 1) :
          NoVisualChange(StackAt(currentStepIndex - 5), StackAt(k))
    /\ \E k \in (currentStepIndex + 1)..LastIndex :
          ~NoVisualChange(StackAt(currentStepIndex), StackAt(k))

(* ------------------------ properties of the store --------------------- *)

\* C28: after any sequence of the store actions setTrace, nextStep, prevStep,
\* setStep (with any integer), togglePlay, setPlaySpeed and reset,
\* currentStepIndex is >= 0 and, when the trace is non-empty, < trace.length,
\* and 0 when the trace is empty.
C28_IndexWithinTrace ==
    /\ currentStepIndex >= 0
    /\ Len(trace) > 0 => currentStepIndex < Len(trace)
    /\ Len(trace) = 0 => currentStepIndex = 0

\* the user has let go while playback is on over a non-empty trace
PlaybackUnattended == phase = "unattended" /\ isPlaying /\ Len(trace) > 0

\* C29: once playback is on over a non-empty trace and no user action
\* intervenes, each timer tick strictly increases currentStepIndex until it is
\* the last index, the tick at the last index sets isPlaying to false and
\* leaves the index, no tick fires after that, and under fair ticking playback
\* eventually stops at the last step.
C29_AutoPlayTerminates ==
    /\ [][(phase = "unattended" /\ smartStep) =>
            IF currentStepIndex < LastIndex
            THEN /\ currentStepIndex' > currentStepIndex
                 /\ currentStepIndex' <= LastIndex
                 /\ isPlaying'
            ELSE /\ ~isPlaying'
                 /\ currentStepIndex' = currentStepIndex]_vars
    /\ [][(phase = "unattended" /\ ~isPlaying) => FALSE]_vars
    /\ PlaybackUnattended ~> (~isPlaying /\ currentStepIndex = LastIndex)

\* playback left alone at a skipping speed has stopped at the last of 12 steps
C29_Witness ==
    /\ phase = "unattended"
    /\ ~isPlaying
    /\ Len(trace) = 12 /\ currentStepIndex = LastIndex
    /\ playSpeed <= 100

\* C30: after setTrace(t) the store holds trace = t, currentStepIndex = 0 and
\* isPlaying = false, and playSpeed is unchanged; reset sets currentStepIndex =
\* 0 and isPlaying = false and leaves trace and playSpeed unchanged.
C30_SetTraceAndResetEffects ==
    [][/\ \A tr \in StoreTraces :
            storeSetTrace(tr) =>
                /\ trace' = tr
                /\ currentStepIndex' = 0
                /\ isPlaying' = FALSE
                /\ playSpeed' = playSpeed
       /\ reset =>
                /\ currentStepIndex' = 0
                /\ isPlaying' = FALSE
                /\ trace' = trace
                /\ playSpeed' = playSpeed]_vars

\* a trace installed while the speed is not the initial one
C30_Witness ==
    /\ Len(trace) > 0
    /\ currentStepIndex = 0
    /\ ~isPlaying
    /\ playSpeed = 20

====
